---- MODULE Spec2Model ----
(***************************************************************************)
(* Model of amount_rounder.process_excel: the per-cell decision whether a  *)
(* workbook figure is an amount, and its rescaling into thousands/lakhs.   *)
(*                                                                         *)
(* Text is held as TLA+ strings and taken apart with Len/SubSeq, so that   *)
(* normalize_header, the substring tests and the year regexes are computed *)
(* the way the Python code computes them.                                  *)
(*                                                                         *)
(* Numbers are held exactly, as integer multiples of 1/Q (Q = 200): every  *)
(* workbook number of the model is a multiple of 1/2 (exactly a double)    *)
(* and every result of round(x, 2) is a multiple of 1/100.                 *)
(***************************************************************************)
EXTENDS Integers, Sequences, FiniteSets, TLC

(***************************************************************************)
(* Text helpers (Python str operations)                                    *)
(***************************************************************************)
Ch(s, i) == SubSeq(s, i, i)

LowerMap ==
  [A |-> "a", B |-> "b", C |-> "c", D |-> "d", E |-> "e", F |-> "f", G |-> "g",
   H |-> "h", I |-> "i", J |-> "j", K |-> "k", L |-> "l", M |-> "m", N |-> "n",
   O |-> "o", P |-> "p", Q |-> "q", R |-> "r", S |-> "s", T |-> "t", U |-> "u",
   V |-> "v", W |-> "w", X |-> "x", Y |-> "y", Z |-> "z"]

DigitChars == {"0", "1", "2", "3", "4", "5", "6", "7", "8", "9"}

\* characters matched by \w (ASCII part)
WordChars ==
  DOMAIN LowerMap \cup {LowerMap[ch] : ch \in DOMAIN LowerMap} \cup DigitChars \cup {"_"}

\* characters matched by \s, removed by str.strip() and str.split()
SpaceChars == {" ", "\n", "\t", "\r"}

RECURSIVE Lower(_)
\* str.lower()
Lower(s) ==
  IF s = "" THEN ""
  ELSE LET ch == Ch(s, 1)
       IN (IF ch \in DOMAIN LowerMap THEN LowerMap[ch] ELSE ch)
            \o Lower(SubSeq(s, 2, Len(s)))

RECURSIVE ReplaceNewline(_)
\* str.replace("\n", " ")
ReplaceNewline(s) ==
  IF s = "" THEN ""
  ELSE (IF Ch(s, 1) = "\n" THEN " " ELSE Ch(s, 1))
         \o ReplaceNewline(SubSeq(s, 2, Len(s)))

RECURSIVE LStrip(_)
LStrip(s) ==
  IF s # "" /\ Ch(s, 1) \in SpaceChars THEN LStrip(SubSeq(s, 2, Len(s))) ELSE s

RECURSIVE RStrip(_)
RStrip(s) ==
  IF s # "" /\ Ch(s, Len(s)) \in SpaceChars
    THEN RStrip(SubSeq(s, 1, Len(s) - 1)) ELSE s

\* str.strip()
Strip(s) == RStrip(LStrip(s))

RECURSIVE SplitFrom(_, _, _)
SplitFrom(s, i, cur) ==
  IF i > Len(s) THEN (IF cur = "" THEN <<>> ELSE <<cur>>)
  ELSE IF Ch(s, i) \in SpaceChars
         THEN (IF cur = "" THEN SplitFrom(s, i + 1, "")
                           ELSE <<cur>> \o SplitFrom(s, i + 1, ""))
         ELSE SplitFrom(s, i + 1, cur \o Ch(s, i))

\* str.split() with no argument
Split(s) == SplitFrom(s, 1, "")

RECURSIVE Join(_, _)
\* sep.join(words)
Join(sep, words) ==
  IF words = <<>> THEN ""
  ELSE IF Len(words) = 1 THEN words[1]
  ELSE words[1] \o sep \o Join(sep, Tail(words))

\* t in s
Contains(s, t) ==
  /\ Len(t) <= Len(s)
  /\ \E i \in 0..(Len(s) - Len(t)) : SubSeq(s, i + 1, i + Len(t)) = t

(***************************************************************************)
(* Cell values                                                             *)
(***************************************************************************)
Q == 2 * 100

None        == [k |-> "none",     u |-> 0, s |-> ""]
Str(t)      == [k |-> "str",      u |-> 0, s |-> t]
Bool(b)     == [k |-> "bool",     u |-> IF b THEN 1 ELSE 0, s |-> ""]
DateTime    == [k |-> "datetime", u |-> 0, s |-> "2024-03-31 00:00:00"]
\* an int of the workbook
Num(x)      == [k |-> "num",      u |-> x * Q, s |-> ""]
\* a float h/2 of the workbook
Halves(h)   == [k |-> "num",      u |-> h * (Q \div 2), s |-> ""]
\* a float of the program, in units of 1/Q
Units(x)    == [k |-> "num",      u |-> x, s |-> ""]

\* isinstance(v, (int, float)) and not isinstance(v, bool)
IsNumber(v) == v.k = "num"

Abs(x) == IF x < 0 THEN -x ELSE x

RECURSIVE NatToStr(_)
NatToStr(n) ==
  LET d == CHOOSE ch \in DigitChars :
             ch = <<"0","1","2","3","4","5","6","7","8","9">>[(n % 10) + 1]
  IN IF n < 10 THEN d ELSE NatToStr(n \div 10) \o d

\* str(value), as header_map applies it to the header-row cell
PyStr(v) ==
  CASE v.k = "str"      -> v.s
    [] v.k = "bool"     -> IF v.u = 1 THEN "True" ELSE "False"
    [] v.k = "datetime" -> v.s
    [] v.k = "num"      ->
         (IF v.u < 0 THEN "-" ELSE "") \o NatToStr(Abs(v.u) \div Q)
           \o (IF v.u % Q = 0 THEN "" ELSE "." \o NatToStr(((Abs(v.u) % Q) * 10) \div Q))
    [] OTHER            -> "None"

(***************************************************************************)
(* Utils (amount_rounder.py, lines 15-59)                                  *)
(***************************************************************************)
DAYS_HEADER_VARIANTS ==
  {"no of days", "no. of days", "number of days", "days", "no days", "no of day"}

YEARISH_HEADER_TOKENS ==
  {"year", "yr", "fy", "f.y.", "financial year", "fiscal year",
   "ay", "assessment year", "calendar year", "period", "quarter", "qtr"}

MONTH_TOKENS ==
  {"jan", "january", "feb", "february", "mar", "march", "apr", "april", "may",
   "jun", "june", "jul", "july", "aug", "august", "sep", "sept", "september",
   "oct", "october", "nov", "november", "dec", "december"}

ROW_YEARISH_TOKENS ==
  {"as at", "as on", "year ended", "fy", "financial year", "fiscal year",
   "assessment year", "ay", "quarter", "qtr",
   "balance sheet", "profit and loss", "statement of"}

\* \b before or after position i, where s[i] is a word character
BoundaryBefore(s, i) == i = 1 \/ Ch(s, i - 1) \notin WordChars
BoundaryAfter(s, i)  == i = Len(s) \/ Ch(s, i + 1) \notin WordChars

\* (19|20)\d{2} at positions i..i+3
YearAt(s, i) ==
  /\ i + 3 <= Len(s)
  /\ SubSeq(s, i, i + 1) \in {"19", "20"}
  /\ Ch(s, i + 2) \in DigitChars
  /\ Ch(s, i + 3) \in DigitChars

AllSpace(s, a, b) == \A j \in a..b : Ch(s, j) \in SpaceChars

\* re.compile(r"\b(19|20)\d{2}\b").search(s)
YearRegex1(s) ==
  \E i \in 1..Len(s) :
    YearAt(s, i) /\ BoundaryBefore(s, i) /\ BoundaryAfter(s, i + 3)

\* re.compile(r"\b(19|20)\d{2}\s*[-/]\s*\d{2}\b").search(s)
YearRegex2(s) ==
  \E i \in 1..Len(s) :
    /\ YearAt(s, i) /\ BoundaryBefore(s, i)
    /\ \E j \in (i + 4)..Len(s) :
         /\ AllSpace(s, i + 4, j - 1)
         /\ Ch(s, j) \in {"-", "/"}
         /\ \E m \in (j + 1)..(Len(s) - 1) :
              /\ AllSpace(s, j + 1, m - 1)
              /\ Ch(s, m) \in DigitChars
              /\ Ch(s, m + 1) \in DigitChars
              /\ BoundaryAfter(s, m + 1)

\* any(rx.search(s) for rx in YEAR_REGEXES)
YEAR_REGEXES(s) == YearRegex1(s) \/ YearRegex2(s)

normalize_header(v) ==
  IF v.k = "none" THEN ""
  ELSE Join(" ", Split(Lower(Strip(ReplaceNewline(PyStr(v))))))

\* math.floor(a + 0.5) with the sign put back; x in units of 1/Q, result an int
round_half_up_int(x) ==
  LET sign == IF x < 0 THEN -1 ELSE 1
      a    == Abs(x)
  IN sign * ((a + (Q \div 2)) \div Q)

is_percentage_cell(cell) == Contains(Lower(cell.number_format), "%")

(***************************************************************************)
(* Core conversion (amount_rounder.py, lines 63-86)                        *)
(***************************************************************************)
MANT_BITS == 53

RECURSIVE BitLen(_)
BitLen(n) == IF n = 0 THEN 0 ELSE 1 + BitLen(n \div 2)

RECURSIVE DblTail(_, _, _, _)
\* Long division of num/den in base 2 until MANT_BITS significant bits are
\* out: the remainder that is left and the last bit decide which way the
\* double nearest to num/den lies.  1: above, -1: below, 0: exactly num/den.
DblTail(r, den, got, last) ==
  IF got >= MANT_BITS
    THEN (IF r = 0 THEN 0
          ELSE IF 2 * r > den THEN 1
          ELSE IF 2 * r < den THEN -1
          ELSE IF last = 1 THEN 1 ELSE -1)
    ELSE LET bit  == IF 2 * r >= den THEN 1 ELSE 0
             rest == 2 * r - den * bit
             sig  == got > 0 \/ bit = 1
         IN DblTail(rest, den, IF sig THEN got + 1 ELSE got, IF sig THEN bit ELSE last)

\* sign of (float division num / den) - (num / den), for num >= 0
DblDir(num, den) ==
  IF num = 0 THEN 0
  ELSE DblTail(num % den, den, BitLen(num \div den), (num \div den) % 2)

\* round(val / div, 2) of Python floats: the double val / div is rounded to
\* 2 decimals correctly, a tie (which needs the double to be exactly
\* k.xx5) going to the even neighbour.  val and the result in units of 1/Q.
RoundDiv2(val, div) ==
  LET sign == IF val < 0 THEN -1 ELSE 1
      a    == Abs(val)
      den  == Q * div
      cent == den \div 100
      c0   == a \div cent
      rem  == a % cent
      dir  == DblDir(a, den)
      c    == IF 2 * rem < cent THEN c0
              ELSE IF 2 * rem > cent THEN c0 + 1
              ELSE IF dir > 0 THEN c0 + 1
              ELSE IF dir < 0 THEN c0
              ELSE IF c0 % 2 = 0 THEN c0 ELSE c0 + 1
  IN sign * c * (Q \div 100)

\* _should_fallback_to_thousand with the edge itself falling back
FallbackAtEdge(val, threshold) == Abs(val) <= threshold

_should_fallback_to_thousand(val, threshold) == Abs(val) < threshold

\* _divide_amount with the edge threshold applied in thousand mode as well
DivideThousandAboveEdge(val, md, threshold) ==
  IF md = "thousand" THEN
    (IF Abs(val) < threshold THEN val ELSE RoundDiv2(val, 1000))
  ELSE IF md = "lakh" THEN
    (IF Abs(val) < threshold THEN RoundDiv2(val, 1000) ELSE RoundDiv2(val, 100000))
  ELSE IF md = "auto" THEN
    (IF Abs(val) >= 100000 * Q THEN RoundDiv2(val, 100000)
     ELSE IF Abs(val) >= threshold THEN RoundDiv2(val, 1000)
     ELSE val)
  ELSE val

\* _divide_amount whose auto mode falls back to thousands the way lakh mode does
DivideAutoFallsBack(val, md, threshold) ==
  IF md = "thousand" THEN RoundDiv2(val, 1000)
  ELSE IF md = "lakh" THEN
    (IF Abs(val) < threshold THEN RoundDiv2(val, 1000) ELSE RoundDiv2(val, 100000))
  ELSE IF md = "auto" THEN
    (IF Abs(val) >= 100000 * Q THEN RoundDiv2(val, 100000)
     ELSE RoundDiv2(val, 1000))
  ELSE val

_divide_amount(val, md, threshold) ==
  IF md = "thousand" THEN RoundDiv2(val, 1000)
  ELSE IF md = "lakh" THEN
    (IF _should_fallback_to_thousand(val, threshold)
       THEN RoundDiv2(val, 1000)
       ELSE RoundDiv2(val, 100000))
  ELSE IF md = "auto" THEN
    (IF Abs(val) >= 100000 * Q THEN RoundDiv2(val, 100000)
     ELSE IF Abs(val) >= threshold THEN RoundDiv2(val, 1000)
     ELSE val)
  ELSE val

(***************************************************************************)
(* Year/date detection (amount_rounder.py, lines 90-153)                   *)
(***************************************************************************)
SCAN_ROWS == 6

_cell_has_yearish_text(t) ==
  LET s == normalize_header(Str(t))
  IN IF s = "" THEN FALSE
     ELSE IF YEAR_REGEXES(s) THEN TRUE
     ELSE IF \E tok \in ROW_YEARISH_TOKENS : Contains(s, tok) THEN TRUE
     ELSE IF (\E m \in MONTH_TOKENS : Contains(s, m)) /\ YEAR_REGEXES(s) THEN TRUE
     ELSE FALSE

_is_four_digit_year_num(v) ==
  IF IsNumber(v) /\ v.u % Q = 0
    THEN 1900 <= v.u \div Q /\ v.u \div Q <= 2100
    ELSE FALSE

Min(a, b) == IF a < b THEN a ELSE b

\* _collect_yearish_columns with range(1, max_scan_row): the last row of the
\* window is not scanned
CollectShortWindow(ws, scan_rows) ==
  LET max_scan_row == Min(ws.max_row, scan_rows)
  IN {cc \in 1..ws.max_column :
        \E rr \in 1..(max_scan_row - 1) :
          LET v == ws.cells[rr][cc].value
          IN \/ (v.k = "str" /\ _cell_has_yearish_text(v.s))
             \/ _is_four_digit_year_num(v)}

_collect_yearish_columns(ws, scan_rows) ==
  LET max_scan_row == Min(ws.max_row, scan_rows)
  IN {cc \in 1..ws.max_column :
        \E rr \in 1..max_scan_row :
          LET v == ws.cells[rr][cc].value
          IN \/ (v.k = "str" /\ _cell_has_yearish_text(v.s))
             \/ _is_four_digit_year_num(v)}

RECURSIVE RowTexts(_, _)
\* the non-empty str values of a row, left to right
RowTexts(row, i) ==
  IF i > Len(row) THEN <<>>
  ELSE (IF row[i].value.k = "str" /\ row[i].value.s # ""
          THEN <<row[i].value.s>> ELSE <<>>) \o RowTexts(row, i + 1)

_row_looks_yearish(row) ==
  LET texts == RowTexts(row, 1)
  IN IF texts = <<>> THEN FALSE
     ELSE _cell_has_yearish_text(normalize_header(Str(Join(" ", texts))))

\* _looks_like_year with the header compared to the tokens (hdr_text in
\* YEARISH_HEADER_TOKENS) instead of searched for them
LooksLikeYearExactHeader(cell, hdr_text, v, column_yearish, row_yearish_) ==
  IF v.k = "datetime" THEN TRUE
  ELSE IF _is_four_digit_year_num(v) THEN
    (IF column_yearish \/ row_yearish_ THEN TRUE
     ELSE LET fmt == Lower(cell.number_format)
              header_yearish == hdr_text \in YEARISH_HEADER_TOKENS
              fmt_yearish == \E x \in {"yy", "yyyy", "mmm", "mm/", "dd", "-yy", "d-m", "m-d"} :
                               Contains(fmt, x)
          IN header_yearish \/ fmt_yearish)
  ELSE FALSE

_looks_like_year(cell, hdr_text, v, column_yearish, row_yearish_) ==
  IF v.k = "datetime" THEN TRUE
  ELSE IF _is_four_digit_year_num(v) THEN
    (IF column_yearish \/ row_yearish_ THEN TRUE
     ELSE LET fmt == Lower(cell.number_format)
              header_yearish == \E tok \in YEARISH_HEADER_TOKENS : Contains(hdr_text, tok)
              fmt_yearish == \E x \in {"yy", "yyyy", "mmm", "mm/", "dd", "-yy", "d-m", "m-d"} :
                               Contains(fmt, x)
          IN header_yearish \/ fmt_yearish)
  ELSE FALSE

(***************************************************************************)
(* process_excel (amount_rounder.py, lines 157-260)                        *)
(***************************************************************************)
VARIABLES
  input,                \* the workbook as load_workbook returned it
  wb,                   \* the workbook, cells rewritten in place
  mode, header_row, lakh_edge_threshold, sheets_include, sheets_exclude,
  summary,
  pc,                   \* "sheets", "rows", "cells", "done"
  wsi, r, c,            \* worksheet, row and column the loops are at
  title, is_depr, hdrs, yearish_cols, days_cols, ws_stats, row_yearish

config == <<input, mode, header_row, lakh_edge_threshold, sheets_include, sheets_exclude>>
locals == <<title, is_depr, hdrs, yearish_cols, days_cols>>
vars == <<input, wb, mode, header_row, lakh_edge_threshold, sheets_include,
          sheets_exclude, summary, pc, wsi, r, c, title, is_depr, hdrs,
          yearish_cols, days_cols, ws_stats, row_yearish>>

RECURSIVE AnyMatch(_, _)
\* any(pat.lower() in name.lower() for pat in pats)
AnyMatch(pats, name) ==
  IF pats = <<>> THEN FALSE
  ELSE Contains(Lower(name), Lower(Head(pats))) \/ AnyMatch(Tail(pats), name)

\* _sheet_allowed with the two tests in the other order: a match of the
\* inclusion list overrides the exclusion
AllowedIncludeWins(name) ==
  LET allowed0 == ~(sheets_exclude # <<>> /\ AnyMatch(sheets_exclude, name))
  IN IF sheets_include # <<>> THEN AnyMatch(sheets_include, name) ELSE allowed0

_sheet_allowed(name) ==
  LET allowed0 == IF sheets_include # <<>> THEN AnyMatch(sheets_include, name) ELSE TRUE
  IN IF sheets_exclude # <<>> /\ AnyMatch(sheets_exclude, name) THEN FALSE ELSE allowed0

header_map(ws, hrow) ==
  [cc \in 1..ws.max_column |-> normalize_header(ws.cells[hrow][cc].value)]

\* lines 204-208
DaysCols(depr, hd) ==
  IF depr /\ DOMAIN hd # {}
    THEN {cc \in DOMAIN hd :
            hd[cc] \in DAYS_HEADER_VARIANTS
              \/ (Contains(hd[cc], "day") /\ ~Contains(hd[cc], "holiday"))}
    ELSE {}

ZeroStats == [cells_seen |-> 0, cells_converted |-> 0]

\* lines 231-249: the amount conversion of a counted cell that is no day count
ConvertAmount(cell, col, seen) ==
  LET v    == cell.value
      keep == [cell |-> cell, stats |-> seen]
  IN IF v.k \in {"num", "datetime"} THEN
       (IF is_percentage_cell(cell) THEN keep
        ELSE LET hdr_text    == IF col \in DOMAIN hdrs THEN hdrs[col] ELSE ""
                 col_yearish == col \in yearish_cols
             IN IF _looks_like_year(cell, hdr_text, v, col_yearish, row_yearish)
                  THEN keep
                ELSE IF IsNumber(v) /\ Abs(v.u) >= 100 * Q THEN
                  (LET new_v == _divide_amount(v.u, mode, lakh_edge_threshold)
                   IN IF new_v # v.u
                        THEN [cell  |-> [cell EXCEPT !.value = Units(new_v)],
                              stats |-> [seen EXCEPT !.cells_converted = @ + 1]]
                        ELSE keep)
                ELSE keep)
     ELSE keep

\* line 223: the cell is a day count of a depreciation sheet
IsDayCount(cell, col) ==
  is_depr /\ days_cols # {} /\ col \in days_cols /\ IsNumber(cell.value)

\* the cell loop's body with cells_seen counted before the merged-cell test
CellBodyCountsMerged(cell, col, stats) ==
  LET seen == [stats EXCEPT !.cells_seen = @ + 1]
  IN IF cell.merged THEN [cell |-> cell, stats |-> seen]
     ELSE IF IsDayCount(cell, col) THEN [cell |-> cell, stats |-> seen]
     ELSE ConvertAmount(cell, col, seen)

\* the cell loop's body with the write-back of lines 226-228 enabled
CellBodyWritesDays(cell, col, stats) ==
  IF cell.merged THEN [cell |-> cell, stats |-> stats]
  ELSE
    LET seen == [stats EXCEPT !.cells_seen = @ + 1]
    IN IF IsDayCount(cell, col)
         THEN LET rounded == round_half_up_int(cell.value.u) * Q
              IN IF rounded # cell.value.u
                   THEN [cell  |-> [cell EXCEPT !.value = Units(rounded)],
                         stats |-> [seen EXCEPT !.cells_converted = @ + 1]]
                   ELSE [cell |-> cell, stats |-> seen]
         ELSE ConvertAmount(cell, col, seen)

\* The body of the cell loop (lines 215-249) for the cell of column col:
\* the cell and the sheet's counters as it leaves them.
CellBody(cell, col, stats) ==
  IF cell.merged THEN [cell |-> cell, stats |-> stats]
  ELSE
    LET seen == [stats EXCEPT !.cells_seen = @ + 1]
    IN IF IsDayCount(cell, col)
         \* the rounded day count is computed and dropped
         THEN LET rounded == round_half_up_int(cell.value.u)
              IN [cell |-> cell, stats |-> seen]
         ELSE ConvertAmount(cell, col, seen)

\* line 193-194: the sheet is filtered out
SkipSheet ==
  /\ pc = "sheets" /\ wsi <= Len(wb)
  /\ ~_sheet_allowed(wb[wsi].title)
  /\ wsi' = wsi + 1
  /\ UNCHANGED <<config, wb, summary, pc, r, c, locals, ws_stats, row_yearish>>

\* lines 196-210: the per-sheet context
BeginSheet ==
  /\ pc = "sheets" /\ wsi <= Len(wb)
  /\ _sheet_allowed(wb[wsi].title)
  /\ LET ws == wb[wsi]
         t  == Strip(ws.title)
         hd == IF ws.max_row >= header_row THEN header_map(ws, header_row) ELSE <<>>
         dp == Contains(Lower(t), "depreciation")
     IN /\ title' = t
        /\ is_depr' = dp
        /\ hdrs' = hd
        /\ yearish_cols' = _collect_yearish_columns(ws, SCAN_ROWS)
        /\ days_cols' = DaysCols(dp, hd)
  /\ ws_stats' = ZeroStats
  /\ pc' = "rows" /\ r' = 1
  /\ UNCHANGED <<config, wb, summary, wsi, c, row_yearish>>

\* line 213
BeginRow ==
  /\ pc = "rows" /\ r <= wb[wsi].max_row
  /\ row_yearish' = _row_looks_yearish(wb[wsi].cells[r])
  /\ pc' = "cells" /\ c' = 1
  /\ UNCHANGED <<config, wb, summary, wsi, r, locals, ws_stats>>

\* lines 214-249, one cell
ProcessCell ==
  /\ pc = "cells" /\ c <= wb[wsi].max_column
  /\ LET res == CellBody(wb[wsi].cells[r][c], c, ws_stats)
     IN /\ wb' = [wb EXCEPT ![wsi].cells[r][c] = res.cell]
        /\ ws_stats' = res.stats
  /\ IF c = wb[wsi].max_column
       THEN pc' = "rows" /\ r' = r + 1 /\ c' = c
       ELSE pc' = pc /\ r' = r /\ c' = c + 1
  /\ UNCHANGED <<config, summary, wsi, locals, row_yearish>>

\* lines 251-253
EndSheet ==
  /\ pc = "rows" /\ r > wb[wsi].max_row
  /\ summary' =
       [summary EXCEPT
          !.sheets = (title :> ws_stats) @@ @,
          !.totals = [cells_seen      |-> @.cells_seen + ws_stats.cells_seen,
                      cells_converted |-> @.cells_converted + ws_stats.cells_converted]]
  /\ pc' = "sheets" /\ wsi' = wsi + 1
  /\ UNCHANGED <<config, wb, r, c, locals, ws_stats, row_yearish>>

\* lines 255-260
Save ==
  /\ pc = "sheets" /\ wsi > Len(wb)
  /\ pc' = "done"
  /\ UNCHANGED <<config, wb, summary, wsi, r, c, locals, ws_stats, row_yearish>>

Next == SkipSheet \/ BeginSheet \/ BeginRow \/ ProcessCell \/ EndSheet \/ Save

(***************************************************************************)
(* Workbooks and run configurations the model is checked on                *)
(***************************************************************************)
Cell(v, fmt) == [value |-> v, number_format |-> fmt, merged |-> FALSE]
Blank        == Cell(None, "General")
MergedCell   == [value |-> None, number_format |-> "General", merged |-> TRUE]

\* a sheet of rows x cols cells, blank but for the cells that at gives
Sheet(name, rows, cols, at) ==
  [title |-> name, max_row |-> rows, max_column |-> cols,
   cells |-> [rr \in 1..rows |-> [cc \in 1..cols |->
                IF <<rr, cc>> \in DOMAIN at THEN at[<<rr, cc>>] ELSE Blank]]]

Modes == {"thousand", "lakh", "auto", "crore"}

\* lakh_edge_threshold, in rupees
Thresholds == {100, 50000, 100000, 200000}

\* amounts, in halves of a rupee
AmountHalves ==
  {2 * x : x \in {0, 50, 100, 125, 375, 1005, 2024, 2125, 2675, 49999, 50000,
                  99999, 100000, 100500, 112500, 150000, 200000, 1000000}}
    \cup {-2 * x : x \in {100, 125, 2675, 50000, 100000, 112500, 150000}}
    \cup {199, 2469, 300001, -4049}

StartOf(book, md, hrow, thr, inc, exc) ==
  /\ input = book /\ wb = book
  /\ mode = md /\ header_row = hrow /\ lakh_edge_threshold = thr * Q
  /\ sheets_include = inc /\ sheets_exclude = exc
  /\ summary = [mode |-> md, header_row |-> hrow, lakh_edge_threshold |-> thr * Q,
                sheets |-> <<>>, totals |-> ZeroStats]
  /\ pc = "sheets" /\ wsi = 1 /\ r = 1 /\ c = 1
  /\ title = "" /\ is_depr = FALSE /\ hdrs = <<>>
  /\ yearish_cols = {} /\ days_cols = {}
  /\ ws_stats = ZeroStats /\ row_yearish = FALSE

\* one amount under a plain header, every mode and threshold
InitAmount ==
  \E h \in AmountHalves, md \in Modes, thr \in Thresholds :
    StartOf(<<Sheet("BS", 2, 1,
                    (<<1, 1>> :> Cell(Str("Total Assets"), "General"))
                      @@ (<<2, 1>> :> Cell(Halves(h), "#,##0.00")))>>,
            md, 1, thr, <<>>, <<>>)

Formats == {"General", "0.00%", "DD-MM-YYYY", "d-mmm", "#,##0.00"}

\* numbers that may or may not be years, in halves
YearHalves == {2 * 1899, 2 * 1900, 2 * 2024, 4049, 2 * 2100, 2 * 2101}

\* rows below the scan window of _collect_yearish_columns
ExtraRows == 1

LastRow == SCAN_ROWS + ExtraRows

\* one number below the scan window under a plain header, every display format
InitFormat ==
  \E h \in YearHalves \cup {2 * 150000}, fmt \in Formats, md \in Modes :
    StartOf(<<Sheet("BS", LastRow, 1,
                    (<<1, 1>> :> Cell(Str("Total Assets"), "General"))
                      @@ (<<LastRow, 1>> :> Cell(Halves(h), fmt)))>>,
            md, 1, 50000, <<>>, <<>>)

YearTexts ==
  {"Financial Year", "Year", "Yr", "Accounting Period", "F.Y.", "As at\n31 March",
   "Rs2024", "Rs 2024-25", "Total Assets", "Payable", "  ", "QUARTER"}

TextRows == {1, 2, SCAN_ROWS, LastRow}

\* a text in column 1, and a number in its row, or in row 3 or the last row
\* of its column or of the other column
InitYear ==
  \E t \in YearTexts, tr \in TextRows, h \in {2 * 1900, 4049, 2 * 2100, 2 * 2101},
     hrow \in {1, 2}, md \in Modes \ {"crore"}, thr \in {100, 50000} :
    \E at \in ({<<tr, 2>>} \cup ({3, LastRow} \X {1, 2})) \ {<<tr, 1>>} :
      StartOf(<<Sheet("Notes", LastRow, 2,
                      (<<tr, 1>> :> Cell(Str(t), "General"))
                        @@ (at :> Cell(Halves(h), "General")))>>,
              md, hrow, thr, <<>>, <<>>)

DaysTexts == {"No. of Days", "Holidays", "Working\nDay", "Total Assets", "DAYS"}

DaysValues ==
  {Num(150000), Halves(61), Num(2024), Num(-365), Bool(TRUE), DateTime}

\* a header in column 1 of a sheet that may be a depreciation sheet, a
\* value in column 1 or 2, a merged cell beside the header
InitDays ==
  \E name \in {"Depreciation Schedule", " fixed assets DEPRECIATION", "Notes"},
     t \in DaysTexts, hrow \in {1, 2, 4}, v \in DaysValues, vc \in {1, 2},
     fmt \in {"General", "0.00%"}, md \in Modes, thr \in {100, 50000} :
    StartOf(<<Sheet(name, 3, 2,
                    (<<1, 1>> :> Cell(Str(t), "General"))
                      @@ (<<1, 2>> :> MergedCell)
                      @@ (<<2, 2>> :> Cell(Num(250000), "General"))
                      @@ (<<3, vc>> :> Cell(v, fmt)))>>,
            md, hrow, thr, <<>>, <<>>)

\* sheets of a workbook
MaxSheets == 2

Titles == {"Summary", "Summary ", "Depreciation", "Depreciation (old)", "P&L"}

\* the worksheet a title stands for
BookSheet(name) ==
  IF Len(name) % 2 = 0
    THEN Sheet(name, 2, 2,
               (<<1, 1>> :> Cell(Str("Particulars"), "General"))
                 @@ (<<1, 2>> :> MergedCell)
                 @@ (<<2, 1>> :> Cell(Num(150000), "General"))
                 @@ (<<2, 2>> :> Cell(Num(50), "General")))
    ELSE Sheet(name, 3, 1,
               (<<1, 1>> :> Cell(Str("Amount"), "General"))
                 @@ (<<2, 1>> :> Cell(Num(4200), "General"))
                 @@ (<<3, 1>> :> Cell(Num(61000), "General")))

\* title sequences without a repeated title (Excel compares titles without case)
Books ==
  UNION {{b \in [1..n -> Titles] :
            \A i, j \in 1..n : i # j => Lower(b[i]) # Lower(b[j])} : n \in 1..MaxSheets}

Includes == {<<>>, <<"depreciation">>, <<"SUM", "p&l">>}
Excludes == {<<>>, <<"old">>, <<"Old", "summary ">>}

\* several sheets, filtered by title
InitBook ==
  \E b \in Books, inc \in Includes, exc \in Excludes :
    StartOf([i \in DOMAIN b |-> BookSheet(b[i])], "thousand", 1, 50000, inc, exc)

Init == InitAmount \/ InitFormat \/ InitYear \/ InitDays \/ InitBook

Spec == Init /\ [][Next]_vars

(***************************************************************************)
(* Properties                                                              *)
(***************************************************************************)
Done == pc = "done"

SheetIds   == DOMAIN input
CellsOf(i) == (1..input[i].max_row) \X (1..input[i].max_column)
Before(i, p) == input[i].cells[p[1]][p[2]]
After(i, p)  == wb[i].cells[p[1]][p[2]]
Changed(i)   == {p \in CellsOf(i) : After(i, p) # Before(i, p)}
NonMerged(i) == {p \in CellsOf(i) : ~Before(i, p).merged}

\* a sheet's header-row text of a column, "" when the sheet has no such row
HeaderText(i, col) ==
  IF input[i].max_row >= header_row
    THEN normalize_header(input[i].cells[header_row][col].value)
    ELSE ""

\* the header is a days header
DaysHeader(h) ==
  \/ h \in {"no of days", "no. of days", "number of days", "days", "no days", "no of day"}
  \/ (Contains(h, "day") /\ ~Contains(h, "holiday"))

DepreciationSheet(i) == Contains(Lower(input[i].title), "depreciation")

\* an integral number within [1900, 2100]
YearNumber(v) ==
  IsNumber(v) /\ v.u % Q = 0 /\ 1900 * Q <= v.u /\ v.u <= 2100 * Q

\* the cell is classified Year-or-date by the sheet's context
YearOrDate(i, p) ==
  _looks_like_year(Before(i, p), HeaderText(i, p[2]), Before(i, p).value,
                   p[2] \in _collect_yearish_columns(input[i], SCAN_ROWS),
                   _row_looks_yearish(input[i].cells[p[1]]))

\* a number of magnitude >= 100 that is no percentage, no year or date and
\* no day count
PlainAmount(i, p) ==
  LET cell == Before(i, p)
  IN /\ ~cell.merged /\ IsNumber(cell.value) /\ Abs(cell.value.u) >= 100 * Q
     /\ ~is_percentage_cell(cell)
     /\ ~YearOrDate(i, p)
     /\ ~(DepreciationSheet(i) /\ DaysHeader(HeaderText(i, p[2])))

\* |new - old / div| <= 0.005 and new has 2 decimals
RoundedQuotient(new, old, div) ==
  /\ new % (Q \div 100) = 0
  /\ Abs(div * new - old) <= ((5 * div) \div 1000) * Q

\* cells_converted of the sheet being scanned counts the cells rewritten so far
CountsRewrites ==
  pc \in {"rows", "cells"} => ws_stats.cells_converted = Cardinality(Changed(wsi))

\* the filter as section 4.5 states it
IncludeMatches(name) ==
  \E k \in DOMAIN sheets_include : Contains(Lower(name), Lower(sheets_include[k]))
ExcludeMatches(name) ==
  \E k \in DOMAIN sheets_exclude : Contains(Lower(name), Lower(sheets_exclude[k]))
SheetIsAllowed(i) ==
  /\ sheets_include = <<>> \/ IncludeMatches(input[i].title)
  /\ ~ExcludeMatches(input[i].title)

RECURSIVE SumOver(_, _)
\* the sum of f over the set S
SumOver(f, S) ==
  IF S = {} THEN 0
  ELSE LET x == CHOOSE y \in S : TRUE IN f[x] + SumOver(f, S \ {x})

\* C1: in mode thousand every plain amount of a processed sheet ends as
\* v / 1000 rounded to 2 decimals, whatever the threshold, and is rewritten.
C1_ThousandDividesBy1000 ==
  (Done /\ mode = "thousand") =>
    \A i \in SheetIds : \A p \in CellsOf(i) :
      (SheetIsAllowed(i) /\ PlainAmount(i, p)) =>
        /\ IsNumber(After(i, p).value)
        /\ RoundedQuotient(After(i, p).value.u, Before(i, p).value.u, 1000)
        /\ After(i, p) # Before(i, p)

\* 150000 with threshold 200000 became 150.0
C1_Witness ==
  /\ Done /\ mode = "thousand" /\ lakh_edge_threshold = 200000 * Q
  /\ input[1].title = "BS" /\ input[1].max_row = 2
  /\ input[1].title = "BS" /\ input[1].max_row = 2
  /\ input[1].title = "BS" /\ input[1].max_row = 2
  /\ PlainAmount(1, <<2, 1>>)
  /\ Before(1, <<2, 1>>).value = Num(150000)
  /\ After(1, <<2, 1>>).value = Num(150)

\* C2: in mode lakh a plain amount of magnitude >= 100000 ends as v / 100000
\* rounded to 2 decimals when |v| >= T, and otherwise as what mode thousand
\* gives, v / 1000 rounded to 2 decimals.
C2_LakhOrFallback ==
  (Done /\ mode = "lakh") =>
    \A i \in SheetIds : \A p \in CellsOf(i) :
      (SheetIsAllowed(i) /\ PlainAmount(i, p)
         /\ Abs(Before(i, p).value.u) >= 100000 * Q) =>
        LET old == Before(i, p).value.u
            new == After(i, p).value.u
        IN IF Abs(old) >= lakh_edge_threshold
             THEN RoundedQuotient(new, old, 100000)
             ELSE /\ RoundedQuotient(new, old, 1000)
                  /\ new = _divide_amount(old, "thousand", lakh_edge_threshold)

\* 150000 under threshold 200000 fell back to thousands: 150.0
C2_Witness ==
  /\ Done /\ mode = "lakh" /\ lakh_edge_threshold = 200000 * Q
  /\ input[1].title = "BS" /\ input[1].max_row = 2
  /\ input[1].title = "BS" /\ input[1].max_row = 2
  /\ input[1].title = "BS" /\ input[1].max_row = 2
  /\ PlainAmount(1, <<2, 1>>)
  /\ Before(1, <<2, 1>>).value = Num(150000)
  /\ After(1, <<2, 1>>).value = Num(150)

C4_TiesRoundHalfUp ==
  (Done /\ mode \in {"thousand", "lakh"}) =>
    \A i \in SheetIds : \A p \in CellsOf(i) :
      (SheetIsAllowed(i) /\ PlainAmount(i, p) /\ Before(i, p).value.u % Q = 0) =>
        LET v     == Abs(Before(i, p).value.u) \div Q
            cents == Abs(After(i, p).value.u) \div (Q \div 100)
        IN /\ (mode = "thousand" /\ v % 10 = 5) => cents = v \div 10 + 1
           /\ (mode = "lakh" /\ Abs(Before(i, p).value.u) >= lakh_edge_threshold
                 /\ v % 1000 = 500) => cents = v \div 1000 + 1

\* C5: an integral number within [1900, 2100] under a header that contains a
\* year-context token is never rewritten and never counted as converted,
\* whatever the mode and threshold.
C5_YearUnderYearHeaderKept ==
  /\ \A i \in SheetIds : \A p \in Changed(i) :
       ~(/\ YearNumber(Before(i, p).value)
         /\ \E tok \in {"year", "yr", "fy", "f.y.", "financial year", "fiscal year",
                        "ay", "assessment year", "calendar year", "period",
                        "quarter", "qtr"} :
              Contains(HeaderText(i, p[2]), tok))
  /\ CountsRewrites

\* 2100 under the header "Accounting Period", with no other year context,
\* in a mode that rewrites amounts of its size
C5_Witness ==
  /\ Done /\ mode = "thousand" /\ header_row = 2
  /\ input[1].title = "Notes" /\ input[1].max_row = LastRow
  /\ Before(1, <<2, 1>>).value = Str("Accounting Period")
  /\ Before(1, <<LastRow, 1>>).value = Num(2100)
  /\ After(1, <<LastRow, 1>>) = Before(1, <<LastRow, 1>>)
  /\ 1 \notin _collect_yearish_columns(input[1], SCAN_ROWS)
  /\ summary.totals.cells_seen > 0

\* the cell was visited by the scan of the sheet at wsi
Visited(p) == p[1] < r \/ (p[1] = r /\ pc = "cells" /\ p[2] < c)

\* C6: during and after the scan of a sheet cells_seen is the number of
\* cells visited that are not non-anchor merged cells, cells_converted the
\* number of cells rewritten, cells_converted <= cells_seen, and a non-anchor
\* merged cell is never rewritten.
C6_SeenOnceConvertedAtMostOnce ==
  /\ pc \in {"rows", "cells"} =>
       /\ ws_stats.cells_seen = Cardinality({p \in NonMerged(wsi) : Visited(p)})
       /\ Changed(wsi) \subseteq {p \in NonMerged(wsi) : Visited(p)}
       /\ ws_stats.cells_converted = Cardinality(Changed(wsi))
       /\ ws_stats.cells_converted <= ws_stats.cells_seen
  /\ \A i \in SheetIds : \A p \in CellsOf(i) :
       Before(i, p).merged => After(i, p) = Before(i, p)
  /\ \A t \in DOMAIN summary.sheets :
       summary.sheets[t].cells_converted <= summary.sheets[t].cells_seen
  /\ summary.totals.cells_converted <= summary.totals.cells_seen

\* the scan of a sheet with a merged cell is over: 5 of its 6 cells were
\* counted and one was rewritten
C6_Witness ==
  /\ pc = "rows" /\ r > wb[wsi].max_row
  /\ Cardinality(CellsOf(wsi)) = 6
  /\ Cardinality(NonMerged(wsi)) = 5
  /\ ws_stats.cells_seen = 5
  /\ ws_stats.cells_converted >= 1

SeenOf      == [i \in SheetIds |-> Cardinality(NonMerged(i))]
ConvertedOf == [i \in SheetIds |-> Cardinality(Changed(i))]

\* C8: the sheets with an entry in the summary are the allowed ones, the
\* totals count the cells of the allowed sheets only, and no cell of a sheet
\* that is not allowed is ever rewritten; an exclusion match vetoes the sheet
\* whatever the inclusion list says.
C8_OnlyAllowedSheetsProcessed ==
  /\ \A i \in SheetIds : ~SheetIsAllowed(i) => wb[i] = input[i]
  /\ Done =>
       LET allowed == {i \in SheetIds : SheetIsAllowed(i)}
       IN /\ DOMAIN summary.sheets = {Strip(input[i].title) : i \in allowed}
          /\ summary.totals.cells_seen = SumOver(SeenOf, allowed)
          /\ summary.totals.cells_converted = SumOver(ConvertedOf, allowed)

\* a sheet that matches both lists was left out, another was processed
C8_Witness ==
  /\ Done /\ Len(input) = 2
  /\ IncludeMatches(input[1].title) /\ ExcludeMatches(input[1].title)
  /\ wb[1] = input[1]
  /\ DOMAIN summary.sheets = {input[2].title}
  /\ wb[2] # input[2]

\* C9: the per-sheet map has one entry per processed sheet, and each total
\* is the sum of its counter over the entries of the map.
C9_OneEntryPerSheetTotalsAreSums ==
  Done =>
    /\ Cardinality(DOMAIN summary.sheets)
         = Cardinality({i \in SheetIds : SheetIsAllowed(i)})
    /\ summary.totals.cells_seen
         = SumOver([t \in DOMAIN summary.sheets |-> summary.sheets[t].cells_seen],
                   DOMAIN summary.sheets)
    /\ summary.totals.cells_converted
         = SumOver([t \in DOMAIN summary.sheets |-> summary.sheets[t].cells_converted],
                   DOMAIN summary.sheets)

\* a text cell of the scan window, and a year number of its column
InWindowText(i, q) ==
  /\ q[1] <= SCAN_ROWS
  /\ Before(i, q).value.k = "str"

\* the text contains one of the tokens
HasToken(t, tokens) == \E tok \in tokens : Contains(normalize_header(Str(t)), tok)

\* C10 as claimed: a text cell of rows 1..min(max row, 6) with any token of
\* section 4.2's set, bare "year" and "yr" among them, keeps every integral
\* number within [1900, 2100] of its column from being rewritten.
C10_SpecTokensFlagColumn ==
  \A i \in SheetIds : \A p \in Changed(i) :
    ~(/\ YearNumber(Before(i, p).value)
      /\ \E q \in CellsOf(i) :
           /\ q[2] = p[2] /\ InWindowText(i, q)
           /\ HasToken(Before(i, q).value.s,
                       {"year", "yr", "fy", "financial year", "fiscal year",
                        "assessment year", "ay", "quarter", "qtr", "as at", "as on",
                        "year ended", "balance sheet", "profit and loss",
                        "statement of"}))

\* C10 amended: the same for the tokens as at, as on, year ended, fy,
\* financial year, fiscal year, assessment year, ay, quarter, qtr, balance
\* sheet, profit and loss, statement of; bare "year" and "yr" are no tokens of
\* the column scan.
C10_RowTokensFlagColumn ==
  \A i \in SheetIds : \A p \in Changed(i) :
    ~(/\ YearNumber(Before(i, p).value)
      /\ \E q \in CellsOf(i) :
           /\ q[2] = p[2] /\ InWindowText(i, q)
           /\ HasToken(Before(i, q).value.s,
                       {"as at", "as on", "year ended", "fy", "financial year",
                        "fiscal year", "assessment year", "ay", "quarter", "qtr",
                        "balance sheet", "profit and loss", "statement of"}))

\* "As at 31 March" in the last row of the window, which is not the header
\* row, kept 2100 below the window in its column, in a mode that rewrites
\* amounts
C10_Witness ==
  /\ Done /\ mode = "thousand" /\ header_row = 1
  /\ input[1].title = "Notes" /\ input[1].max_row = LastRow
  /\ Before(1, <<SCAN_ROWS, 1>>).value = Str("As at\n31 March")
  /\ Before(1, <<LastRow, 1>>).value = Num(2100)
  /\ After(1, <<LastRow, 1>>) = Before(1, <<LastRow, 1>>)
  /\ _collect_yearish_columns(input[1], SCAN_ROWS) = {1}

====
